---------------------------- MODULE Spec2Model ----------------------------
(***************************************************************************)
(* A model of src/main.py (ScoopUI): the silent and the streaming command  *)
(* runner, the three table parsers, the reconciliation of `scoop status`   *)
(* and `scoop list` into the inventory, and the threads that run them: the *)
(* Tk UI thread with its after() queue, one worker per refresh run, one    *)
(* per search and one per mutating command.                                *)
(*                                                                         *)
(* Text is modelled after sanitising and trimming: an output is a sequence *)
(* of lines and a line is the sequence of its whitespace-separated tokens  *)
(* (a blank line is << >>).  Substring and regular-expression tests of the *)
(* source are evaluated on the tokens of the vocabulary below.             *)
(*                                                                         *)
(* The root window exists in every state: destroying it ends mainloop()    *)
(* and, all workers being daemon threads, the process.  The guards         *)
(* `if not self.root.winfo_exists(): return` are therefore never taken.    *)
(***************************************************************************)
EXTENDS Integers, Sequences, FiniteSets, TLC

(***************************************************************************)
(* Bounds of the model.                                                    *)
(***************************************************************************)
\* refresh runs (worker threads of refresh_manage_apps_list) per behaviour
MaxRuns == 2
\* mutating commands (install / update / uninstall) per behaviour
MaxCmds == 1
\* searches per behaviour
MaxSearches == 1
\* lines a streaming child writes before the transcript stops being counted
MaxOutLines == 1
\* data rows of a generated `scoop list` output
MaxListRows == 2
\* data rows of a generated `scoop status` output
MaxStatusRows == 2
\* lines of an output a parser is called with on its own
MaxLines == 4

(***************************************************************************)
(* Strings.                                                                *)
(***************************************************************************)
\* the value None of a stdout that was never captured
None == << <<"<None>">> >>

\* str.lower() on the vocabulary: the tokens with an upper-case letter
Lower(s) ==
    CASE s = "Foo" -> "foo"
      [] s = "Bar" -> "bar"
      [] s = "Scoop" -> "scoop"
      [] s = "Scoop (Self-Update)" -> "scoop (self-update)"
      [] s = "Name" -> "name"
      [] s = "Version" -> "version"
      [] s = "Source" -> "source"
      [] s = "Update" -> "update"
      [] s = "N/A" -> "n/a"
      [] s = "N" -> "n"
      [] s = "Latest" -> "latest"
      [] OTHER -> s

\* the lower-case names of the vocabulary in Python's string order
LowerOrder == << "bar", "foo", "scoop", "scoop (self-update)", "zed" >>

\* position of a lower-case name in LowerOrder
Rank(s) == CHOOSE i \in 1..Len(LowerOrder) : LowerOrder[i] = s

\* Python's truth value of a str or None: "" and None are false
Truthy(text) == text # << >> /\ text # None

\* `sub in line` for a substring without whitespace: some token contains it.
\* Of the vocabulary only the token sub itself contains "----", "Name",
\* "Version".
InLine(sub, line) == \E i \in 1..Len(line) : line[i] = sub

\* `sub + " " in line`: a token ending in sub is followed by another token
InLineSp(sub, line) == \E i \in 1..(Len(line) - 1) : line[i] = sub

RECURSIVE SeqFold(_, _, _)
\* left fold of Op over the sequence s
SeqFold(Op(_, _), acc, s) ==
    IF s = << >> THEN acc ELSE SeqFold(Op, Op(acc, Head(s)), Tail(s))

(***************************************************************************)
(* parse_scoop_list_apps                                                   *)
(***************************************************************************)
\* one iteration of the loop over lines; st = [started, skipped, out]
ListLine(st, line) ==
    IF line = << >> THEN st
    ELSE IF InLine("----", line) /\ ~InLine("Name", line)
    THEN [st EXCEPT !.started = TRUE, !.skipped = FALSE]
    ELSE IF ~st.started THEN st
    ELSE IF ~st.skipped /\ InLineSp("Name", line) /\ InLineSp("Version", line)
    THEN [st EXCEPT !.skipped = TRUE]
    ELSE IF Len(line) >= 2
    THEN [st EXCEPT !.out = Append(@,
             [name |-> line[1], version |-> line[2],
              source |-> IF Len(line) >= 3 THEN line[3] ELSE "N/A",
              info |-> IF Len(line) >= 4 THEN SubSeq(line, 4, Len(line)) ELSE << >>])]
    ELSE st

parse_scoop_list_apps(list_output) ==
    IF ~Truthy(list_output) THEN << >>
    ELSE SeqFold(ListLine, [started |-> FALSE, skipped |-> FALSE, out |-> << >>],
                 list_output).out


(***************************************************************************)
(* parse_scoop_updates_info                                                *)
(***************************************************************************)
\* a token made only of characters of [\w.-]
WordDotDash(tok) == tok \in {"1.0", "1.5", "2.0", "latest", "-", "Foo", "foo"}

\* group of ([\w.-]+)\. at the start of a token, "" when it does not match:
\* the longest prefix of [\w.-] characters that a "." still follows
BeforeDot(tok) ==
    CASE tok = "2.0." -> "2.0"
      [] tok = "1.5." -> "1.5"
      [] tok = "2.0" -> "2"
      [] tok = "1.5" -> "1"
      [] tok = "1.0" -> "1"
      [] OTHER -> ""

\* scoop_update_re matches at token i of the line
ScoopReAt(line, i) ==
    /\ i + 8 <= Len(line)
    /\ line[i] = "Scoop"
    /\ SubSeq(line, i + 1, i + 5) = << "can", "be", "updated", "from", "version" >>
    /\ WordDotDash(line[i + 6])
    /\ line[i + 7] = "to"
    /\ BeforeDot(line[i + 8]) # ""

\* scoop_update_re.search(line): << >> for no match, else <<[current, new]>>
\* of the leftmost match
scoop_update_re(line) ==
    LET at == {i \in 1..Len(line) : ScoopReAt(line, i)}
    IN  IF at = {} THEN << >>
        ELSE LET i == CHOOSE j \in at : \A k \in at : j <= k
             IN  << [current |-> line[i + 6], new |-> BeforeDot(line[i + 8])] >>

\* group of ([\w.+-]+) at the start of a token: its longest prefix of such
\* characters
VersionPrefix(tok) == IF tok = "N/A" THEN "N" ELSE tok

\* app_update_info_re.search(" ".join(parts)): << >> for no match, else <<V>>
app_update_info_re(parts) ==
    LET at == {i \in 1..(Len(parts) - 2) :
                  parts[i] = "Update" /\ parts[i + 1] = "available:"}
    IN  IF at = {} THEN << >>
        ELSE LET i == CHOOSE j \in at : \A k \in at : j <= k
             IN  << VersionPrefix(parts[i + 2]) >>

\* the values of final_new_version that are no version
NonVersions == {"n/a", "-", "unknown", "error", "latest"}

\* the version a data row offers: the annotation's when there is one
final_new_version(parts) ==
    LET m == IF Len(parts) > 3
             THEN app_update_info_re(SubSeq(parts, 4, Len(parts)))
             ELSE << >>
    IN  IF m # << >> THEN m[1] ELSE parts[3]

\* the duplicate test of line 598; added is the set added_app_names
AlreadyAdded(app_name, added) == app_name \in added

\* one iteration of the loop over cleaned_lines;
\* st = [scoop, apps, added, started]
StatusLine(st, line) ==
    IF line = << >> THEN st
    ELSE IF scoop_update_re(line) # << >>
    THEN [st EXCEPT !.scoop = scoop_update_re(line)]
    ELSE IF InLine("----", line) /\ ~InLine("Name", line) /\ ~InLine("Version", line)
    THEN [st EXCEPT !.started = TRUE]
    ELSE IF ~st.started THEN st
    ELSE IF Len(line) >= 2 /\ Lower(line[1]) = "name"
            /\ \E i \in 1..Len(line) : Lower(line[i]) = "version"
    THEN st
    ELSE IF Len(line) >= 3
    THEN LET new == final_new_version(line)
         IN  IF /\ line[2] # new
                /\ Lower(new) \notin NonVersions
                /\ Lower(line[1]) # "scoop"
                /\ ~AlreadyAdded(line[1], st.added)
             THEN [st EXCEPT
                     !.apps = Append(@, [name |-> line[1], current |-> line[2],
                                         new |-> new]),
                     !.added = @ \cup {line[1]}]
             ELSE st
    ELSE st

parse_scoop_updates_info(status_output) ==
    IF ~Truthy(status_output) THEN [scoop |-> << >>, apps |-> << >>]
    ELSE LET st == SeqFold(StatusLine,
                      [scoop |-> << >>, apps |-> << >>, added |-> {},
                       started |-> FALSE], status_output)
         IN  [scoop |-> st.scoop, apps |-> st.apps]

(***************************************************************************)
(* Step 4 of _refresh_task_in_thread: combine and sort                     *)
(***************************************************************************)
\* app_updates_dict.get(key): << >> for None; of several candidates with
\* the same lower-case name the dict comprehension keeps the last
app_updates_dict_get(apps, key) ==
    LET at == {i \in 1..Len(apps) : Lower(apps[i].name) = key}
    IN  IF at = {} THEN << >>
        ELSE << apps[CHOOSE j \in at : \A k \in at : k <= j] >>

\* a self entry with its versions exchanged
SwappedSelfEntry(info) ==
    [name |-> "Scoop (Self-Update)", original_name |-> "scoop",
     current_version |-> info.new, new_version |-> info.current,
     status_text |-> "Scoop Update Available", has_update |-> TRUE,
     is_scoop_self |-> TRUE, source_bucket |-> "Scoop Core"]

\* the record appended for the self-update candidate
SelfEntry(info) ==
    [name |-> "Scoop (Self-Update)", original_name |-> "scoop",
     current_version |-> info.current, new_version |-> info.new,
     status_text |-> "Scoop Update Available", has_update |-> TRUE,
     is_scoop_self |-> TRUE, source_bucket |-> "Scoop Core"]

\* a record that keeps the version of the list when an update exists
ListVersionEntry(app_data, update_details) ==
    [name |-> app_data.name, original_name |-> app_data.name,
     current_version |-> app_data.version,
     new_version |-> IF update_details # << >> THEN update_details[1].new ELSE "N/A",
     status_text |-> IF update_details # << >> THEN "Update Available" ELSE "Installed",
     has_update |-> update_details # << >>,
     is_scoop_self |-> FALSE, source_bucket |-> app_data.source]

\* the record appended for an installed app; update_details is << >> or <<d>>
AppEntry(app_data, update_details) ==
    IF update_details # << >>
    THEN [name |-> app_data.name, original_name |-> app_data.name,
          current_version |-> update_details[1].current,
          new_version |-> update_details[1].new,
          status_text |-> "Update Available", has_update |-> TRUE,
          is_scoop_self |-> FALSE, source_bucket |-> app_data.source]
    ELSE [name |-> app_data.name, original_name |-> app_data.name,
          current_version |-> app_data.version, new_version |-> "N/A",
          status_text |-> "Installed", has_update |-> FALSE,
          is_scoop_self |-> FALSE, source_bucket |-> app_data.source]

\* a test that compares the name as written
ProcessedAsWritten(original_name, processed) == original_name \in processed

\* a test that skips scoop whether or not a self-update exists
ProcessedOrScoop(original_name, processed) ==
    Lower(original_name) \in processed \cup {"scoop"}

\* the test of line 733; processed is processed_app_names_lower
AlreadyProcessed(original_name, processed) == Lower(original_name) \in processed

\* managed_apps_candidates before the sort
CombineCandidates(updates_info, installed_apps_parsed) ==
    LET Step(st, app_data) ==
            IF AlreadyProcessed(app_data.name, st.processed) THEN st
            ELSE [out |-> Append(st.out,
                     AppEntry(app_data,
                         app_updates_dict_get(updates_info.apps, Lower(app_data.name)))),
                  processed |-> st.processed \cup {Lower(app_data.name)}]
        init == IF updates_info.scoop # << >>
                THEN [out |-> << SelfEntry(updates_info.scoop[1]) >>,
                      processed |-> {"scoop"}]
                ELSE [out |-> << >>, processed |-> {}]
    IN  SeqFold(Step, init, installed_apps_parsed).out

\* the tier of a record in sort_key
Tier(app) == IF app.is_scoop_self THEN 0 ELSE IF app.has_update THEN 1 ELSE 2

\* a comparison by name alone
NameLess(a, b) == Rank(Lower(a.name)) < Rank(Lower(b.name))

\* sort_key(a) < sort_key(b), on the tuples (tier, name.lower())
KeyLess(a, b) ==
    \/ Tier(a) < Tier(b)
    \/ Tier(a) = Tier(b) /\ Rank(Lower(a.name)) < Rank(Lower(b.name))

\* list.sort(key=sort_key): a stable sort
SortCandidates(cands) ==
    LET Insert(sorted, x) ==
            LET n == Cardinality({i \in 1..Len(sorted) : ~KeyLess(x, sorted[i])})
            IN  SubSeq(sorted, 1, n) \o << x >> \o SubSeq(sorted, n + 1, Len(sorted))
    IN  SeqFold(Insert, << >>, cands)

\* managed_apps_candidates as _populate_list_and_finalize receives it
Reconcile(updates_info, installed_apps_parsed) ==
    SortCandidates(CombineCandidates(updates_info, installed_apps_parsed))

(***************************************************************************)
(* get_scoop_command_output                                                *)
(***************************************************************************)
\* What the machine does to one invocation: setup_ok (STARTUPINFO and the
\* creation of the process raise nothing unexpected), shell_found (the
\* command interpreter that shell=True starts exists), scoop_found, exits
\* (the child exits before the timeout) with exit_code, stdout and stderr.
Env(setup_ok, shell_found, scoop_found, exits, exit_code, stdout, stderr) ==
    [setup_ok |-> setup_ok, shell_found |-> shell_found,
     scoop_found |-> scoop_found, exits |-> exits, exit_code |-> exit_code,
     stdout |-> stdout, stderr |-> stderr]

\* a child that exits with code rc having written stdout and stderr
EnvExit(rc, stdout, stderr) == Env(TRUE, TRUE, TRUE, TRUE, rc, stdout, stderr)
EnvHang == Env(TRUE, TRUE, TRUE, FALSE, 0, << >>, "")
EnvNoScoop == Env(TRUE, TRUE, FALSE, TRUE, 0, << >>, "")
EnvNoShell == Env(TRUE, FALSE, FALSE, TRUE, 0, << >>, "")
EnvSetupError == Env(FALSE, TRUE, TRUE, TRUE, 0, << >>, "")

\* the invocations that do not end with exit code 0
FailEnvs ==
    {EnvExit(7, << >>, "boom"), EnvHang, EnvNoScoop, EnvNoShell, EnvSetupError}

\* subprocess.Popen(['scoop'] + command_parts, ..., shell=True): the process
\* created is the shell, so FileNotFoundError is raised only when the shell
\* is missing; a missing scoop makes the shell exit with code 1 and a
\* message on stderr.
Popen(env) ==
    IF ~env.setup_ok THEN [raised |-> "Exception"]
    ELSE IF ~env.shell_found THEN [raised |-> "FileNotFoundError"]
    ELSE IF ~env.scoop_found
    THEN [raised |-> "", exits |-> TRUE, returncode |-> 1, stdout |-> << >>,
          stderr |-> "'scoop' is not recognized"]
    ELSE [raised |-> "", exits |-> env.exits, returncode |-> env.exit_code,
          stdout |-> env.stdout, stderr |-> env.stderr]

\* (stdout, stderr, returncode) of one silent invocation
get_scoop_command_output(env) ==
    LET process == Popen(env)
    IN  IF process.raised = "FileNotFoundError"
        THEN [stdout |-> None, stderr |-> "Scoop command not found.", returncode |-> -1]
        ELSE IF process.raised = "Exception"
        THEN [stdout |-> None, stderr |-> "An unexpected error occurred", returncode |-> -1]
        ELSE IF ~process.exits
        THEN [stdout |-> None, stderr |-> "Command timed out.", returncode |-> -1]
        ELSE [stdout |-> process.stdout, stderr |-> process.stderr,
              returncode |-> process.returncode]

(***************************************************************************)
(* State                                                                   *)
(***************************************************************************)
VARIABLES
    status_label,                 \* text of self.status_label
    status_progress,              \* TRUE while self.status_progress runs
    current_managed_apps_data,    \* the published inventory
    manage_apps_treeview,         \* the rows shown for it
    current_search_results_data,  \* the published search results
    search_results_treeview,      \* the rows shown for them
    afterQueue,                   \* callbacks handed to root.after(0, ...)
    run,                          \* the refresh workers, by start order
    cmd,                          \* the mutating-command workers
    search,                       \* the search workers
    writers,                      \* who has written which caller-visible state
    parsed                        \* a parser called on its own, and what it gave

vars == << status_label, status_progress, current_managed_apps_data,
           manage_apps_treeview, current_search_results_data,
           search_results_treeview, afterQueue, run, cmd, search, writers,
           parsed >>

\* the variables of the program proper
progVars == << status_label, status_progress, current_managed_apps_data,
               manage_apps_treeview, current_search_results_data,
               search_results_treeview, afterQueue, run, cmd, search, writers >>

\* the workers a behaviour can start.  MaxRuns, MaxCmds and MaxSearches
\* bound what the buttons of Spec and SearchSpec start; one worker more of
\* each kind exists for the specifications that start two at a time
Runs == 1..(MaxRuns + 1)
Cmds == 1..(MaxCmds + 1)
Searches == 1..(MaxSearches + 1)

\* a refresh worker that was not started
NoRun ==
    [pc |-> "idle", calls |-> << >>,
     updates_info |-> [scoop |-> << >>, apps |-> << >>],
     installed_apps_parsed |-> << >>, managed_apps_candidates |-> << >>,
     boxes |-> << >>, published |-> FALSE]

\* a mutating-command worker that was not started
NoCmd ==
    [pc |-> "idle", command_parts |-> << >>, dialog |-> FALSE, lines |-> 0,
     process |-> [exits |-> FALSE, returncode |-> 0],
     expired |-> FALSE, outcome |-> "", refreshes |-> 0]

\* no parser was called on its own
NoParse == [mode |-> "", input |-> << >>, raised |-> FALSE, result |-> << >>]

\* a search worker that was not started
NoSearch == [pc |-> "idle", search_results |-> << >>, boxes |-> << >>]

\* an entry of the after() queue
Callback(fn, id, text, data) == [fn |-> fn, id |-> id, text |-> text, data |-> data]

\* root.after(0, cb) called once, and twice
After(cb) == afterQueue' = Append(afterQueue, cb)
After2(cb1, cb2) == afterQueue' = afterQueue \o << cb1, cb2 >>

\* the ghost record of a write to caller-visible state
Wrote(targets, thread) ==
    writers' = writers \cup {[target |-> t, thread |-> thread] : t \in targets}

\* refresh runs started so far
StartedRuns == {r \in Runs : run[r].pc # "idle"}
StartedCmds == {c \in Cmds : cmd[c].pc # "idle"}
StartedSearches == {s \in Searches : search[s].pc # "idle"}

\* refresh runs that the commands launched so far still have to start
OwedRuns ==
    Cardinality({c \in StartedCmds : cmd[c].refreshes = 0})
    + Cardinality({i \in 1..Len(afterQueue) : afterQueue[i].fn = "refresh_callback"})

\* dialog.grab_set(): while the dialog of a command is open the main window
\* takes no input
MainWindowUsable == \A c \in Cmds : ~cmd[c].dialog

\* n more refresh runs fit the bound
RoomForRuns(n) == Cardinality(StartedRuns) + OwedRuns + n <= MaxRuns

(***************************************************************************)
(* refresh_manage_apps_list, on the UI thread                              *)
(***************************************************************************)
\* a clear that forgets the data
KeptList(data) == data

\* what _clear_manage_apps_list leaves in current_managed_apps_data
ClearedList(data) == << >>

\* the run started by the next call
NextRun == Cardinality(StartedRuns) + 1

\* lines 613-616 and 793-795
refresh_manage_apps_list ==
    /\ status_label' = "Refreshing application list..."
    /\ status_progress' = TRUE
    /\ manage_apps_treeview' = << >>
    /\ current_managed_apps_data' = ClearedList(current_managed_apps_data)
    /\ run' = [run EXCEPT ![NextRun] = [NoRun EXCEPT !.pc = "start"]]
    /\ Wrote({"status", "inventory"}, "ui")

\* the Refresh List button
RefreshButton ==
    /\ MainWindowUsable
    /\ RoomForRuns(1)
    /\ refresh_manage_apps_list
    /\ UNCHANGED << parsed, current_search_results_data, search_results_treeview,
                    afterQueue, cmd, search >>

(***************************************************************************)
(* _refresh_task_in_thread, on a refresh worker                            *)
(***************************************************************************)
\* error_details: stderr or stdout or the default text
ErrorDetails(out) ==
    IF out.stderr # "" THEN out.stderr
    ELSE IF Truthy(out.stdout) THEN "stdout" ELSE "Unknown error"

\* the call of get_scoop_command_output as the run's log keeps it
Call(name, env) == [cmd |-> name, env |-> env, out |-> get_scoop_command_output(env)]

\* a worker that leaves out the refresh of the metadata
StatusCommandFirst == "status"

\* the command a refresh worker invokes first (line 627)
FirstCommand == "update"

\* lines 621-626: the worker starts and schedules the first status text
RefreshThreadStarts(r) ==
    /\ run[r].pc = "start"
    /\ run' = [run EXCEPT ![r].pc = FirstCommand]
    /\ After(Callback("set_status", r, "Updating Scoop metadata (scoop update)...", << >>))
    /\ UNCHANGED << parsed, status_label, status_progress, current_managed_apps_data,
                    manage_apps_treeview, current_search_results_data,
                    search_results_treeview, cmd, search, writers >>

\* a test that lets every step follow
AnyReturn(returncode) == TRUE

\* a test that misses the sentinel -1
NotPositive(returncode) == returncode <= 0

\* the test that lets a step follow the command before it
StepSucceeded(returncode) == returncode = 0

\* lines 629-656: `scoop update` returns
RefreshUpdateReturns(r, envs) ==
    /\ run[r].pc = "update"
    /\ \E env \in envs :
         LET call == Call("update", env)
         IN  IF ~StepSucceeded(call.out.returncode)
             THEN /\ run' = [run EXCEPT ![r].pc = "done", ![r].calls = Append(@, call)]
                  /\ After(Callback("_handle_scoop_update_error", r,
                                    ErrorDetails(call.out), << >>))
             ELSE /\ run' = [run EXCEPT ![r].pc = "status", ![r].calls = Append(@, call)]
                  /\ After(Callback("set_status", r,
                                    "Fetching app status (scoop status)...", << >>))
    /\ UNCHANGED << parsed, status_label, status_progress, current_managed_apps_data,
                    manage_apps_treeview, current_search_results_data,
                    search_results_treeview, cmd, search, writers >>

\* a test that warns on every non-empty stderr
WarnOnAnyStderr(out) == out.stderr # ""

\* the test of line 681 that decides whether the warning is shown
WarnOnStatus(out) == out.stderr # "" /\ ~Truthy(out.stdout)

\* lines 658-689: `scoop status` returns
RefreshStatusReturns(r, envs) ==
    /\ run[r].pc = "status"
    /\ \E env \in envs :
         LET call == Call("status", env)
             next == Callback("set_status", r,
                              "Fetching installed apps (scoop list)...", << >>)
         IN  IF ~StepSucceeded(call.out.returncode)
             THEN /\ run' = [run EXCEPT ![r].pc = "done", ![r].calls = Append(@, call)]
                  /\ After(Callback("_handle_scoop_status_error", r,
                                    ErrorDetails(call.out), << >>))
             ELSE /\ run' = [run EXCEPT
                               ![r].pc = "list", ![r].calls = Append(@, call),
                               ![r].updates_info =
                                   parse_scoop_updates_info(call.out.stdout)]
                  /\ IF WarnOnStatus(call.out)
                     THEN After2(Callback("status_warning", r, call.out.stderr, << >>),
                                 next)
                     ELSE After(next)
    /\ UNCHANGED << parsed, status_label, status_progress, current_managed_apps_data,
                    manage_apps_treeview, current_search_results_data,
                    search_results_treeview, cmd, search, writers >>

\* lines 690-791: `scoop list` returns; on success the worker reconciles
RefreshListReturns(r, envs) ==
    /\ run[r].pc = "list"
    /\ \E env \in envs :
         LET call == Call("list", env)
             installed == parse_scoop_list_apps(call.out.stdout)
             candidates == Reconcile(run[r].updates_info, installed)
         IN  IF ~StepSucceeded(call.out.returncode)
             THEN /\ run' = [run EXCEPT ![r].pc = "done", ![r].calls = Append(@, call)]
                  /\ After(Callback("_handle_scoop_list_error", r,
                                    ErrorDetails(call.out), << >>))
             ELSE /\ run' = [run EXCEPT
                               ![r].pc = "done", ![r].calls = Append(@, call),
                               ![r].installed_apps_parsed = installed,
                               ![r].managed_apps_candidates = candidates]
                  /\ After(Callback("_populate_list_and_finalize", r, "", candidates))
    /\ UNCHANGED << parsed, status_label, status_progress, current_managed_apps_data,
                    manage_apps_treeview, current_search_results_data,
                    search_results_treeview, cmd, search, writers >>

(***************************************************************************)
(* The callbacks of the after() queue, on the UI thread                    *)
(***************************************************************************)
\* the row the manage treeview shows for a record
ManageRow(app_item) ==
    << app_item.name, app_item.current_version, app_item.new_version >>

ManageRows(data) == [i \in 1..Len(data) |-> ManageRow(data[i])]

\* what _populate_list_and_finalize stores in current_managed_apps_data
PublishedList(managed_apps_candidates) == managed_apps_candidates

\* the message box a refresh run shows
Box(kind, title, details) == [kind |-> kind, title |-> title, details |-> details]

\* title of the error box of each handler
ErrorTitle(fn) ==
    CASE fn = "_handle_scoop_update_error" -> "Scoop Update Error"
      [] fn = "_handle_scoop_status_error" -> "Scoop Status Error"
      [] fn = "_handle_scoop_list_error" -> "Scoop List Error"

ErrorHandlers ==
    {"_handle_scoop_update_error", "_handle_scoop_status_error",
     "_handle_scoop_list_error"}

\* the lambdas that only set the status text (lines 624, 654, 687, 165)
SetStatus(cb) ==
    /\ cb.fn = "set_status"
    /\ status_label' = cb.text
    /\ Wrote({"status"}, "ui")
    /\ UNCHANGED << parsed, status_progress, current_managed_apps_data,
                    manage_apps_treeview, run >>

\* _handle_scoop_update_error, _handle_scoop_status_error and
\* _handle_scoop_list_error: the error box, then "Ready" and the cleared list
HandleError(cb) ==
    /\ cb.fn \in ErrorHandlers
    /\ run' = [run EXCEPT ![cb.id].boxes =
                  Append(@, Box("error", ErrorTitle(cb.fn), cb.text))]
    /\ status_label' = "Ready"
    /\ manage_apps_treeview' = << >>
    /\ current_managed_apps_data' = ClearedList(current_managed_apps_data)
    /\ Wrote({"status", "inventory"}, "ui")
    /\ UNCHANGED << parsed, status_progress >>

\* the warning box of line 682
StatusWarning(cb) ==
    /\ cb.fn = "status_warning"
    /\ run' = [run EXCEPT ![cb.id].boxes =
                  Append(@, Box("warning", "Scoop Status Warning", cb.text))]
    /\ UNCHANGED << parsed, status_label, status_progress, current_managed_apps_data,
                    manage_apps_treeview, writers >>

\* _populate_list_and_finalize
PopulateListAndFinalize(cb) ==
    /\ cb.fn = "_populate_list_and_finalize"
    /\ current_managed_apps_data' = PublishedList(cb.data)
    /\ manage_apps_treeview' = ManageRows(cb.data)
    /\ status_label' = "Ready"
    /\ status_progress' = FALSE
    /\ run' = [run EXCEPT ![cb.id].published = TRUE]
    /\ Wrote({"status", "inventory"}, "ui")

\* refresh_callback, scheduled by a mutating command
RefreshCallback(cb) ==
    /\ cb.fn = "refresh_callback"
    /\ refresh_manage_apps_list

\* the UI thread runs the oldest callback of the queue
UIAfter ==
    /\ afterQueue # << >>
    /\ afterQueue' = Tail(afterQueue)
    /\ LET cb == Head(afterQueue)
       IN  \/ SetStatus(cb)
           \/ HandleError(cb)
           \/ StatusWarning(cb)
           \/ PopulateListAndFinalize(cb)
           \/ RefreshCallback(cb)
    /\ UNCHANGED << parsed, current_search_results_data, search_results_treeview,
                    cmd, search >>

\* the Clear List button: _clear_manage_apps_list
ClearListButton ==
    /\ MainWindowUsable
    /\ manage_apps_treeview' = << >>
    /\ current_managed_apps_data' = ClearedList(current_managed_apps_data)
    /\ Wrote({"inventory"}, "ui")
    /\ UNCHANGED << parsed, status_label, status_progress, current_search_results_data,
                    search_results_treeview, afterQueue, run, cmd, search >>

(***************************************************************************)
(* The mutating commands: run_scoop_command_threaded on the UI thread and  *)
(* _execute_scoop_action_with_modal_output on a command worker             *)
(***************************************************************************)
\* the command started by the next call, and the one after it
NextCmd == Cardinality(StartedCmds) + 1

\* the bounds, raised by spare, leave room for the commands in launches and
\* for the refresh runs they will trigger
LaunchRoom(launches, spare) ==
    /\ Cardinality(StartedCmds) + Len(launches) <= MaxCmds + spare
    /\ Cardinality(StartedRuns) + OwedRuns + Len(launches) <= MaxRuns + spare

\* run_scoop_command_threaded for each of the argument lists in launches
\* (one or two); every call sets the status text and starts a worker
StartWorkers(launches) ==
    /\ status_label' = "Running..."
    /\ cmd' = [c \in Cmds |->
                 IF c \in NextCmd..(NextCmd + Len(launches) - 1)
                 THEN [NoCmd EXCEPT !.pc = "start",
                                    !.command_parts = launches[c - NextCmd + 1]]
                 ELSE cmd[c]]
    /\ Wrote({"status"}, "ui")

\* the commands in launches are started, within the bounds
Launch(launches) == LaunchRoom(launches, 0) /\ StartWorkers(launches)

\* original_name of the selected records that satisfy Keep, in row order
RECURSIVE SelectedNames(_, _, _, _)
SelectedNames(data, sel, Keep(_), i) ==
    IF i > Len(data) THEN << >>
    ELSE (IF i \in sel /\ Keep(data[i]) THEN << data[i].original_name >> ELSE << >>)
         \o SelectedNames(data, sel, Keep, i + 1)

\* the records _handle_update_selected_from_manage_list updates by name
UpdatableApp(candidate) == ~candidate.is_scoop_self /\ candidate.has_update

\* the record that makes it update scoop itself
UpdatableSelf(candidate) == candidate.is_scoop_self /\ candidate.has_update

\* a test that lets every record be uninstalled
AnyRecord(candidate) == TRUE

\* the records _handle_uninstall_selected_from_manage_list uninstalls
Uninstallable(candidate) == ~candidate.is_scoop_self

\* the commands Uninstall Selected runs for the selection sel once confirmed
UninstallLaunches(data, sel) ==
    LET names == SelectedNames(data, sel, Uninstallable, 1)
    IN  IF names # << >> THEN << << "uninstall" >> \o names >> ELSE << >>

\* the commands Update Selected runs for the selection sel once confirmed
UpdateLaunches(data, sel) ==
    LET names == SelectedNames(data, sel, UpdatableApp, 1)
    IN  (IF \E i \in sel : UpdatableSelf(data[i]) THEN << << "update" >> >> ELSE << >>)
        \o (IF names # << >> THEN << << "update" >> \o names >> ELSE << >>)

\* _handle_update_selected_from_manage_list, the user answering yes
UpdateSelectedButton ==
    /\ MainWindowUsable
    /\ current_managed_apps_data # << >>
    /\ \E sel \in SUBSET (1..Len(manage_apps_treeview)) :
         /\ UpdateLaunches(current_managed_apps_data, sel) # << >>
         /\ Launch(UpdateLaunches(current_managed_apps_data, sel))
    /\ UNCHANGED << parsed, status_progress, current_managed_apps_data,
                    manage_apps_treeview, current_search_results_data,
                    search_results_treeview, afterQueue, run, search >>

\* _handle_update_selected_from_manage_list, the user answering yes, for a
\* selection that holds the self entry and an app with an update: lines
\* 830-834 start `scoop update` and `scoop update <names>` one after the
\* other
UpdateSelfAndApps ==
    /\ MainWindowUsable
    /\ current_managed_apps_data # << >>
    /\ \E sel \in SUBSET (1..Len(manage_apps_treeview)) :
         LET launches == UpdateLaunches(current_managed_apps_data, sel)
         IN  /\ Len(launches) = 2
             /\ LaunchRoom(launches, 1)
             /\ StartWorkers(launches)
    /\ UNCHANGED << parsed, status_progress, current_managed_apps_data,
                    manage_apps_treeview, current_search_results_data,
                    search_results_treeview, afterQueue, run, search >>

\* _handle_uninstall_selected_from_manage_list, the user answering yes
UninstallSelectedButton ==
    /\ MainWindowUsable
    /\ current_managed_apps_data # << >>
    /\ \E sel \in SUBSET (1..Len(manage_apps_treeview)) :
         /\ UninstallLaunches(current_managed_apps_data, sel) # << >>
         /\ Launch(UninstallLaunches(current_managed_apps_data, sel))
    /\ UNCHANGED << parsed, status_progress, current_managed_apps_data,
                    manage_apps_treeview, current_search_results_data,
                    search_results_treeview, afterQueue, run, search >>

\* _handle_install_selected_from_list, the user answering yes; the row
\* selected is looked up by its index in current_search_results_data
InstallSelectedButton ==
    /\ MainWindowUsable
    /\ current_search_results_data # << >>
    /\ \E i \in 1..Len(search_results_treeview) :
         /\ i <= Len(current_search_results_data)
         /\ Launch(<< << "install", current_search_results_data[i].name >> >>)
    /\ UNCHANGED << parsed, status_progress, current_managed_apps_data,
                    manage_apps_treeview, current_search_results_data,
                    search_results_treeview, afterQueue, run, search >>

\* the finally block of lines 141-172: "Ready" and refresh_callback are
\* handed to the UI thread, then the worker waits for the dialog (if it
\* still exists) to close
CmdFinish(c, outcome, dialog) ==
    /\ cmd' = [cmd EXCEPT ![c].outcome = outcome,
                          ![c].refreshes = @ + 1,
                          ![c].pc = IF dialog THEN "wait_window" ELSE "done",
                          ![c].dialog = dialog]
    /\ After2(Callback("set_status", c, "Ready", << >>),
              Callback("refresh_callback", c, "", << >>))

\* what the mutating commands meet when they start
StreamEnvs == {EnvExit(0, << >>, ""), EnvExit(7, << >>, ""), EnvHang,
               EnvNoScoop, EnvNoShell, EnvSetupError}

\* lines 67-110: the dialog is created and the process started
CmdStarts(c) ==
    /\ cmd[c].pc = "start"
    /\ \E env \in StreamEnvs :
         LET process == Popen(env)
         IN  IF process.raised = "FileNotFoundError" THEN CmdFinish(c, "not_found", TRUE)
             ELSE IF process.raised = "Exception" THEN CmdFinish(c, "unexpected", TRUE)
             ELSE /\ cmd' = [cmd EXCEPT ![c].pc = "reading", ![c].dialog = TRUE,
                                        ![c].process = [exits |-> process.exits,
                                                        returncode |-> process.returncode]]
                  /\ UNCHANGED afterQueue
    /\ UNCHANGED << parsed, status_label, status_progress, current_managed_apps_data,
                    manage_apps_treeview, current_search_results_data,
                    search_results_treeview, run, search, writers >>

\* lines 112-116: the child writes a line; the loop ends if the dialog is gone
CmdReadsLine(c) ==
    /\ cmd[c].pc = "reading"
    /\ IF ~cmd[c].dialog
       THEN cmd' = [cmd EXCEPT ![c].pc = "waiting"]
       ELSE /\ cmd[c].lines < MaxOutLines
            /\ cmd' = [cmd EXCEPT ![c].lines = @ + 1]
    /\ UNCHANGED << parsed, status_label, status_progress, current_managed_apps_data,
                    manage_apps_treeview, current_search_results_data,
                    search_results_treeview, afterQueue, run, search, writers >>

\* the child closes its output: the loop of line 112 ends
CmdReadsEof(c) ==
    /\ cmd[c].pc = "reading"
    /\ cmd' = [cmd EXCEPT ![c].pc = "waiting"]
    /\ UNCHANGED << parsed, status_label, status_progress, current_managed_apps_data,
                    manage_apps_treeview, current_search_results_data,
                    search_results_treeview, afterQueue, run, search, writers >>

\* the timeout of the command (line 118, 300 s) passes while the worker is
\* still in the loop of line 112, which has no timeout: the child is one
\* that does not exit in time
CmdTimePasses(c) ==
    /\ cmd[c].pc = "reading"
    /\ ~cmd[c].process.exits
    /\ ~cmd[c].expired
    /\ cmd' = [cmd EXCEPT ![c].expired = TRUE]
    /\ UNCHANGED << parsed, status_label, status_progress, current_managed_apps_data,
                    manage_apps_treeview, current_search_results_data,
                    search_results_treeview, afterQueue, run, search, writers >>

\* line 118: process.wait returns the exit code, or raises TimeoutExpired
CmdWaitEnds(c) ==
    /\ cmd[c].pc = "waiting"
    /\ IF cmd[c].process.exits
       THEN CmdFinish(c, IF cmd[c].process.returncode = 0 THEN "success" ELSE "failed",
                      cmd[c].dialog)
       ELSE CmdFinish(c, "timeout", cmd[c].dialog)
    /\ UNCHANGED << parsed, status_label, status_progress, current_managed_apps_data,
                    manage_apps_treeview, current_search_results_data,
                    search_results_treeview, run, search, writers >>

\* the user closes the dialog of a command (its Close button once the
\* command ended, the window's close box before)
CloseDialog(c) ==
    /\ cmd[c].dialog
    /\ cmd' = [cmd EXCEPT ![c].dialog = FALSE,
                          ![c].pc = IF @ = "wait_window" THEN "done" ELSE @]
    /\ UNCHANGED << parsed, status_label, status_progress, current_managed_apps_data,
                    manage_apps_treeview, current_search_results_data,
                    search_results_treeview, afterQueue, run, search, writers >>

(***************************************************************************)
(* Search: search_app on the UI thread, fetch_and_show_search_results on a *)
(* search worker                                                           *)
(***************************************************************************)
\* one iteration of the loop over lines; st = [started, out]
SearchLine(st, line) ==
    IF line = << >> THEN st
    ELSE IF InLine("----", line) /\ ~InLine("Name", line)
    THEN [st EXCEPT !.started = TRUE]
    ELSE IF ~st.started \/ (InLineSp("Name", line) /\ InLineSp("Version", line))
    THEN st
    ELSE IF Len(line) >= 2 /\ Lower(line[1]) # "scoop"
    THEN [st EXCEPT !.out = Append(@,
             [name |-> line[1], version |-> line[2],
              source |-> IF Len(line) > 2 THEN line[3] ELSE "N/A"])]
    ELSE st

\* search_output.strip() raises AttributeError on None
ParseSearchRaises(search_output) == search_output = None

parse_scoop_search_results(search_output) ==
    SeqFold(SearchLine, [started |-> FALSE, out |-> << >>], search_output).out

\* the row the search treeview shows for a record
SearchRows(data) ==
    [i \in 1..Len(data) |-> << data[i].name, data[i].version, data[i].source >>]

\* a clear that forgets the data
KeptResults(data) == data

\* what _clear_search_results leaves in current_search_results_data
ClearedResults(data) == << >>

\* search_app with a non-empty name: lines 398-399 and 437-439; searches is
\* the number of searches the behaviour may start
search_app(searches) ==
    /\ MainWindowUsable
    /\ Cardinality(StartedSearches) < searches
    /\ status_label' = "Searching..."
    /\ search_results_treeview' = << >>
    /\ current_search_results_data' = ClearedResults(current_search_results_data)
    /\ search' = [search EXCEPT ![Cardinality(StartedSearches) + 1] =
                     [NoSearch EXCEPT !.pc = "call"]]
    /\ Wrote({"status", "search"}, "ui")
    /\ UNCHANGED << parsed, status_progress, current_managed_apps_data,
                    manage_apps_treeview, afterQueue, run, cmd >>

\* the Search button, within the bound of the behaviour
SearchButton == search_app(MaxSearches)

\* the Search button where a second search may follow or overtake the first
SearchAgainButton == search_app(MaxSearches + 1)

\* the Clear Results button: _clear_search_results
ClearResultsButton ==
    /\ MainWindowUsable
    /\ search_results_treeview' = << >>
    /\ current_search_results_data' = ClearedResults(current_search_results_data)
    /\ Wrote({"search"}, "ui")
    /\ UNCHANGED << parsed, status_label, status_progress, current_managed_apps_data,
                    manage_apps_treeview, afterQueue, run, cmd, search >>

\* lines 403-427: `scoop search` returns; the worker shows a box and sets
\* the status text itself
SearchReturns(s, envs) ==
    /\ search[s].pc = "call"
    /\ \E env \in envs :
         LET out == get_scoop_command_output(env)
             results == IF Truthy(out.stdout)
                        THEN parse_scoop_search_results(out.stdout) ELSE << >>
         IN  IF out.returncode # 0 \/ out.stderr # ""
             THEN /\ search' = [search EXCEPT ![s].pc = "clear_tree",
                                  ![s].boxes = Append(@, Box("error", "Search Error",
                                                             ErrorDetails(out)))]
                  /\ status_label' = "Search failed."
             ELSE IF results = << >>
             THEN /\ search' = [search EXCEPT ![s].pc = "clear_tree",
                                  ![s].boxes = Append(@, Box("info", "Search Results", ""))]
                  /\ status_label' = "Ready"
             ELSE /\ search' = [search EXCEPT ![s].pc = "set_data",
                                              ![s].search_results = results]
                  /\ status_label' = "Ready"
    /\ Wrote({"status"}, "search_worker")
    /\ UNCHANGED << parsed, status_progress, current_managed_apps_data,
                    manage_apps_treeview, current_search_results_data,
                    search_results_treeview, afterQueue, run, cmd >>

\* _clear_search_results called by the worker (lines 410, 416, 424):
\* first the rows, then the data
SearchWorkerClears(s) ==
    /\ \/ /\ search[s].pc = "clear_tree"
          /\ search_results_treeview' = << >>
          /\ search' = [search EXCEPT ![s].pc = "clear_data"]
          /\ UNCHANGED << parsed, current_search_results_data, writers >>
       \/ /\ search[s].pc = "clear_data"
          /\ current_search_results_data' = ClearedResults(current_search_results_data)
          /\ search' = [search EXCEPT ![s].pc = "done"]
          /\ Wrote({"search"}, "search_worker")
          /\ UNCHANGED << parsed, search_results_treeview >>
    /\ UNCHANGED << parsed, status_label, status_progress, current_managed_apps_data,
                    manage_apps_treeview, afterQueue, run, cmd >>

\* lines 429-435: the worker stores the results, deletes the rows and
\* inserts the new ones
SearchWorkerPublishes(s) ==
    /\ \/ /\ search[s].pc = "set_data"
          /\ current_search_results_data' = search[s].search_results
          /\ search' = [search EXCEPT ![s].pc = "delete_rows"]
          /\ Wrote({"search"}, "search_worker")
          /\ UNCHANGED << parsed, search_results_treeview >>
       \/ /\ search[s].pc = "delete_rows"
          /\ search_results_treeview' = << >>
          /\ search' = [search EXCEPT ![s].pc = "insert_rows"]
          /\ UNCHANGED << parsed, current_search_results_data, writers >>
       \/ /\ search[s].pc = "insert_rows"
          /\ search_results_treeview' =
                 search_results_treeview \o SearchRows(search[s].search_results)
          /\ search' = [search EXCEPT ![s].pc = "done"]
          /\ UNCHANGED << parsed, current_search_results_data, writers >>
    /\ UNCHANGED << parsed, status_label, status_progress, current_managed_apps_data,
                    manage_apps_treeview, afterQueue, run, cmd >>

(***************************************************************************)
(* The outputs the commands produce                                        *)
(***************************************************************************)
Header == << "Name", "Version", "Source" >>
Separator == << "----", "----", "----" >>
SelfUpdateLine ==
    << "Scoop", "can", "be", "updated", "from", "version", "1.0", "to", "2.0." >>
\* the same announcement with other versions
SelfUpdateLineB ==
    << "Scoop", "can", "be", "updated", "from", "version", "1.5", "to", "1.5." >>

\* `scoop status` announcing a self-update and an update of foo
StatusText == << SelfUpdateLine, Header, Separator, << "foo", "1.0", "2.0" >> >>

\* `scoop list` with two installed apps
ListText == << Header, Separator, << "Foo", "1.0", "main" >>, << "bar", "1.5", "main" >> >>

\* `scoop search` with one hit
SearchText == << Header, Separator, << "zed", "1.0", "main" >> >>

\* `scoop search` with two hits
SearchTextB ==
    << Header, Separator, << "foo", "1.0", "main" >>, << "bar", "1.5", "main" >> >>

\* the failures the refresh runs and searches of Spec meet: an exit code
\* other than 0, and the sentinel -1 of a timeout
CoreFailEnvs == {EnvExit(7, << >>, "boom"), EnvHang}

UpdateEnvs == {EnvExit(0, << >>, "")} \cup CoreFailEnvs

StatusEnvs ==
    {EnvExit(0, StatusText, ""), EnvExit(0, StatusText, "warn"),
     EnvExit(0, << >>, "warn")} \cup CoreFailEnvs

ListEnvs == {EnvExit(0, ListText, "")} \cup CoreFailEnvs

SearchEnvs ==
    {EnvExit(0, SearchText, ""), EnvExit(0, SearchText, "warn"), EnvExit(0, << >>, "")}
    \cup CoreFailEnvs

(***************************************************************************)
(* The program                                                             *)
(***************************************************************************)
\* the state after ScoopUI.__init__, whose last statement (line 252) is the
\* first call of refresh_manage_apps_list
Init ==
    /\ status_label = "Refreshing application list..."
    /\ status_progress = TRUE
    /\ current_managed_apps_data = << >>
    /\ manage_apps_treeview = << >>
    /\ current_search_results_data = << >>
    /\ search_results_treeview = << >>
    /\ afterQueue = << >>
    /\ run = [r \in Runs |-> IF r = 1 THEN [NoRun EXCEPT !.pc = "start"] ELSE NoRun]
    /\ cmd = [c \in Cmds |-> NoCmd]
    /\ search = [s \in Searches |-> NoSearch]
    /\ writers = {[target |-> t, thread |-> "ui"] : t \in {"status", "inventory", "search"}}
    /\ parsed = NoParse

\* the events of the manage tab, on the UI thread
ManageTab ==
    \/ UIAfter
    \/ RefreshButton
    \/ ClearListButton
    \/ UpdateSelectedButton
    \/ UninstallSelectedButton
    \/ \E c \in Cmds : CloseDialog(c)

\* the events of the search tab, on the UI thread
SearchTab ==
    \/ UIAfter
    \/ SearchButton
    \/ ClearResultsButton
    \/ InstallSelectedButton
    \/ \E c \in Cmds : CloseDialog(c)

RefreshWorker(r) ==
    \/ RefreshThreadStarts(r)
    \/ RefreshUpdateReturns(r, UpdateEnvs)
    \/ RefreshStatusReturns(r, StatusEnvs)
    \/ RefreshListReturns(r, ListEnvs)

\* a refresh worker whose commands print nothing; `scoop update` may fail
QuietRefreshWorker(r) ==
    \/ RefreshThreadStarts(r)
    \/ RefreshUpdateReturns(r, {EnvExit(0, << >>, ""), EnvExit(7, << >>, "boom")})
    \/ RefreshStatusReturns(r, {EnvExit(0, << >>, "")})
    \/ RefreshListReturns(r, {EnvExit(0, << >>, "")})

CmdWorker(c) ==
    \/ CmdStarts(c)
    \/ CmdReadsLine(c)
    \/ CmdReadsEof(c)
    \/ CmdTimePasses(c)
    \/ CmdWaitEnds(c)

SearchWorker(s) ==
    \/ SearchReturns(s, SearchEnvs)
    \/ SearchWorkerClears(s)
    \/ SearchWorkerPublishes(s)

\* the manage tab in use: refresh runs and the commands launched from it
Next ==
    \/ ManageTab
    \/ \E r \in Runs : RefreshWorker(r)
    \/ \E c \in Cmds : CmdWorker(c)

Spec == Init /\ [][Next]_vars

\* the search tab in use: searches and the installs launched from it, with
\* the refresh run of the start and those the installs trigger
SearchNext ==
    \/ SearchTab
    \/ \E r \in Runs : QuietRefreshWorker(r)
    \/ \E c \in Cmds : CmdWorker(c)
    \/ \E s \in Searches : SearchWorker(s)

SearchSpec == Init /\ [][SearchNext]_vars

\* what the scheduler and the clock guarantee: the UI thread runs its
\* queue, a silent invocation returns (by exit or by timeout), a command
\* worker starts, the timeout of a command passes, process.wait returns or
\* times out, and a child that exits closes its output.  Nothing makes a
\* child that never exits close its output, write a line, or the user act.
Fairness ==
    /\ WF_vars(UIAfter)
    /\ \A r \in Runs : WF_vars(RefreshWorker(r))
    /\ \A c \in Cmds : /\ WF_vars(CmdStarts(c))
                       /\ WF_vars(CmdTimePasses(c))
                       /\ WF_vars(CmdWaitEnds(c))
                       /\ WF_vars(cmd[c].process.exits /\ CmdReadsEof(c))

FairSpec == Init /\ [][Next]_vars /\ Fairness

\* the sequences over S of length at most n
SeqsUpTo(S, n) == UNION {[1..k -> S] : k \in 0..n}

\* the lines of a `scoop search` or `scoop list` output: blank, header,
\* separator, a line of one token, rows of two, three and five tokens, and
\* a row for scoop itself
TableLines ==
    {<< >>, Header, Separator, << "foo" >>, << "foo", "1.0", "main" >>,
     << "bar", "1.5" >>, << "scoop", "1.0", "main" >>,
     << "Foo", "1.0", "main", "held", "package" >>}

\* the lines of a `scoop status` output: the announcement, header,
\* separator, a row of two tokens, rows with an update, rows whose latest
\* version is no version or the installed one, rows with an annotation, and
\* a row for scoop itself
StatusLines ==
    {SelfUpdateLine, Header, Separator, << "zed", "1.0" >>,
     << "foo", "1.0", "2.0" >>, << "Foo", "1.0", "1.5" >>,
     << "bar", "1.0", "latest" >>, << "zed", "1.0", "1.0" >>,
     << "bar", "1.0", "1.0", "Update", "available:", "2.0" >>,
     << "zed", "1.0", "2.0", "Update", "available:", "N/A" >>,
     << "scoop", "1.0", "2.0" >>}

\* the outputs a parser is called with: absent, empty, and every text of at
\* most MaxLines lines
ParserInputs(lines) == {None} \cup SeqsUpTo(lines, MaxLines)

\* a caller calls parse_scoop_search_results(search_output)
ParseSearch ==
    /\ parsed = NoParse
    /\ \E search_output \in ParserInputs(TableLines) :
         parsed' = [mode |-> "search", input |-> search_output,
                    raised |-> ParseSearchRaises(search_output),
                    result |-> IF ParseSearchRaises(search_output) THEN << >>
                               ELSE parse_scoop_search_results(search_output)]
    /\ UNCHANGED progVars

\* a caller calls parse_scoop_list_apps(list_output)
ParseList ==
    /\ parsed = NoParse
    /\ \E list_output \in ParserInputs(TableLines) :
         parsed' = [mode |-> "list", input |-> list_output, raised |-> FALSE,
                    result |-> parse_scoop_list_apps(list_output)]
    /\ UNCHANGED progVars

\* a caller calls parse_scoop_updates_info(status_output)
ParseStatus ==
    /\ parsed = NoParse
    /\ \E status_output \in ParserInputs(StatusLines) :
         parsed' = [mode |-> "status", input |-> status_output, raised |-> FALSE,
                    result |-> parse_scoop_updates_info(status_output)]
    /\ UNCHANGED progVars

ParserNext == ParseSearch \/ ParseList \/ ParseStatus

\* a refresh worker whose commands succeed: a self-update and an update of
\* foo are announced, Foo and bar are installed
HappyRefreshWorker(r) ==
    \/ RefreshThreadStarts(r)
    \/ RefreshUpdateReturns(r, {EnvExit(0, << >>, "")})
    \/ RefreshStatusReturns(r, {EnvExit(0, StatusText, "")})
    \/ RefreshListReturns(r, {EnvExit(0, ListText, "")})

\* the manage tab where Update Selected is used on the self entry and an
\* app together, up to the moment the refresh runs that the two commands
\* trigger are started
UpdateNext ==
    \/ UIAfter
    \/ UpdateSelfAndApps
    \/ \E c \in Cmds : CloseDialog(c)
    \/ HappyRefreshWorker(1)
    \/ \E c \in Cmds : CmdWorker(c)

UpdateSpec == Init /\ [][UpdateNext]_vars

\* the outcomes of `scoop search` on the search tab alone
SearchTabEnvs ==
    {EnvExit(0, SearchText, ""), EnvExit(0, SearchTextB, ""),
     EnvExit(0, << >>, ""), EnvExit(0, << Header >>, ""), EnvExit(7, << >>, "boom")}

\* the search tab alone: two searches, one after or during the other, and
\* the install of a selected row
SearchTabNext ==
    \/ SearchAgainButton
    \/ ClearResultsButton
    \/ InstallSelectedButton
    \/ \E s \in Searches : \/ SearchReturns(s, SearchTabEnvs)
                            \/ SearchWorkerClears(s)
                            \/ SearchWorkerPublishes(s)

SearchTabSpec == Init /\ [][SearchTabNext]_vars

\* the three parsers, each called on its own with every input
ParserSpec == Init /\ [][ParserNext]_vars

\* every way the machine can treat a silent invocation
AllEnvs ==
    {Env(a, b, c, d, rc, out, err) :
        a \in BOOLEAN, b \in BOOLEAN, c \in BOOLEAN, d \in BOOLEAN,
        rc \in {0, 7}, out \in {<< >>, ListText}, err \in {"", "warn"}}

\* the first silent invocation of the program, met by every environment
RunnerNext ==
    \/ RefreshThreadStarts(1)
    \/ RefreshUpdateReturns(1, AllEnvs)
    \/ UIAfter

RunnerSpec == Init /\ [][RunnerNext]_vars

\* data rows of `scoop list`
ListRows ==
    {<< n, "1.0", "main" >> : n \in {"Foo", "foo", "bar", "scoop"}}
        \cup {<< "Foo", "0.9", "main" >>}

\* data rows of `scoop status`
StatusRows ==
    {<< "Foo", "1.0", "2.0" >>, << "foo", "1.0", "1.5" >>, << "bar", "1.0", "1.0" >>,
     << "bar", "1.0", "latest" >>, << "scoop", "1.0", "2.0" >>}

GenListTexts ==
    {<< Header, Separator >> \o rows : rows \in SeqsUpTo(ListRows, MaxListRows)}

GenStatusTexts ==
    {pre \o << Header, Separator >> \o rows :
        pre \in {<< >>, << SelfUpdateLine >>, << SelfUpdateLineB >>},
        rows \in SeqsUpTo(StatusRows, MaxStatusRows)}

\* the refresh run of the start, its commands succeeding with every
\* generated status and list output
DataNext ==
    \/ RefreshThreadStarts(1)
    \/ RefreshUpdateReturns(1, {EnvExit(0, << >>, "")})
    \/ RefreshStatusReturns(1, {EnvExit(0, t, "") : t \in GenStatusTexts})
    \/ RefreshListReturns(1, {EnvExit(0, t, "") : t \in GenListTexts})
    \/ UIAfter

DataSpec == Init /\ [][DataNext]_vars

(***************************************************************************)
(* Claims                                                                  *)
(***************************************************************************)
\* callbacks of run r in the after() queue whose fn is in fns
Queued(r, fns) ==
    {i \in 1..Len(afterQueue) : afterQueue[i].id = r /\ afterQueue[i].fn \in fns}

\* boxes of the given kind that run r has shown
Shown(r, kind) == {i \in 1..Len(run[r].boxes) : run[r].boxes[i].kind = kind}

\* run r has handed its reconciled inventory to the UI thread
Reconciled(r) ==
    run[r].published \/ Queued(r, {"_populate_list_and_finalize"}) # {}

\* some run publishes its reconciled inventory in this step
Publishes == \E r \in Runs : run'[r].published /\ ~run[r].published

\* some run is started in this step
StartsRun == \E r \in Runs : run[r].pc = "idle" /\ run'[r].pc # "idle"

\* the error handler of some run ends in this step
EndsInError ==
    \E r \in Runs : Cardinality({i \in 1..Len(run'[r].boxes) : run'[r].boxes[i].kind = "error"})
                    > Cardinality(Shown(r, "error"))

CallNames(r) == [i \in 1..Len(run[r].calls) |-> run[r].calls[i].cmd]

\* C3: a run invokes update, status, list in this order, each at most once,
\* each only after the one before returned 0, and reconciles only after
\* list returned 0.
C3_StepOrder ==
    \A r \in Runs :
        /\ CallNames(r) = SubSeq(<< "update", "status", "list" >>, 1, Len(run[r].calls))
        /\ \A i \in 1..(Len(run[r].calls) - 1) : run[r].calls[i].out.returncode = 0
        /\ Reconciled(r) => /\ Len(run[r].calls) = 3
                            /\ run[r].calls[3].out.returncode = 0

\* a run that invoked all three commands and published
C3_Witness == \E r \in Runs : Len(run[r].calls) = 3 /\ run[r].published

\* the last command of run r returned a non-zero exit code
Failed(r) ==
    run[r].calls # << >> /\ run[r].calls[Len(run[r].calls)].out.returncode # 0

\* the error handler that reports the failure of a command
HandlerOf(name) ==
    CASE name = "update" -> "_handle_scoop_update_error"
      [] name = "status" -> "_handle_scoop_status_error"
      [] name = "list" -> "_handle_scoop_list_error"

\* C4: a run whose command returned non-zero hands exactly one error report,
\* that of the failed step, to the UI thread (queued there or shown) and
\* never hands over a reconciled inventory; a run without a failed command
\* reports no error.
C4_OneErrorReport ==
    \A r \in Runs :
        IF Failed(r)
        THEN LET h == HandlerOf(run[r].calls[Len(run[r].calls)].cmd)
             IN  /\ Cardinality(Queued(r, ErrorHandlers)) + Cardinality(Shown(r, "error")) = 1
                 /\ \/ Cardinality(Queued(r, {h})) = 1
                    \/ \E i \in Shown(r, "error") : run[r].boxes[i].title = ErrorTitle(h)
                 /\ ~Reconciled(r)
        ELSE Queued(r, ErrorHandlers) = {} /\ Shown(r, "error") = {}

\* `scoop status` timed out (-1) and the status error box was shown
C4_Witness ==
    \E r \in Runs :
        /\ Len(run[r].calls) = 2 /\ run[r].calls[2].out.returncode = -1
        /\ \E i \in Shown(r, "error") : run[r].boxes[i].title = "Scoop Status Error"

\* run r has invoked `scoop status` and it returned 0
StatusOk(r) == Len(run[r].calls) >= 2 /\ run[r].calls[2].out.returncode = 0

\* the warnings of run r, queued or shown, that carry text
Warnings(r, text) ==
    Cardinality({i \in Queued(r, {"status_warning"}) : afterQueue[i].text = text})
    + Cardinality({i \in Shown(r, "warning") : run[r].boxes[i].details = text})

C2_OnlyUIThreadWrites == \A w \in writers : w.thread = "ui"

\* C6: no invocation outlasts its timeout: a silent invocation whose child
\* never exits returns the timed-out outcome, and no command worker is still
\* blocked on its child once the timeout has passed.
C6_BoundedByTimeout ==
    /\ \A r \in Runs : \A i \in 1..Len(run[r].calls) :
          LET call == run[r].calls[i]
          IN  (call.env.setup_ok /\ call.env.shell_found /\ call.env.scoop_found
               /\ ~call.env.exits)
              => call.out.returncode = -1 /\ call.out.stderr = "Command timed out."
    /\ \A c \in Cmds : cmd[c].expired => cmd[c].pc \notin {"reading", "waiting"}

\* C7: a silent invocation returns the child's exit code when the child
\* exits in time, and otherwise the sentinel -1 with the message of its
\* class: tool not found, timed out, or unexpected error.
C7_Classified ==
    \A r \in Runs : \A i \in 1..Len(run[r].calls) :
        LET env == run[r].calls[i].env
            out == run[r].calls[i].out
            found == env.shell_found /\ env.scoop_found
        IN  /\ (env.setup_ok /\ found /\ env.exits) => out.returncode = env.exit_code
            /\ (env.setup_ok /\ ~found)
               => out.returncode = -1 /\ out.stderr = "Scoop command not found."
            /\ (env.setup_ok /\ found /\ ~env.exits)
               => out.returncode = -1 /\ out.stderr = "Command timed out."
            /\ ~env.setup_ok
               => out.returncode = -1 /\ out.stderr = "An unexpected error occurred"

\* C8: every mutating command that is launched is eventually followed by
\* one refresh triggered by it, never by more than one, and the refresh is
\* triggered only once the run of the command has ended.
C8_RefreshFollows ==
    /\ \A c \in Cmds : (cmd[c].pc # "idle") ~> (cmd[c].refreshes = 1)
    /\ [](\A c \in Cmds : /\ cmd[c].refreshes <= 1
                          /\ cmd[c].refreshes = 1 => cmd[c].pc \in {"wait_window", "done"})

\* C9: the published inventory has at most one record per lower-case name.
C9_UniqueNames ==
    \A i, j \in 1..Len(current_managed_apps_data) :
        i # j => Lower(current_managed_apps_data[i].name)
                 # Lower(current_managed_apps_data[j].name)

\* published: a list naming Foo and foo, with an update candidate for it
C9_Witness ==
    /\ run[1].published
    /\ Len(current_managed_apps_data) >= 2
    /\ \E i, j \in 1..Len(run[1].installed_apps_parsed) :
          /\ run[1].installed_apps_parsed[i].name = "Foo"
          /\ run[1].installed_apps_parsed[j].name = "foo"
    /\ \E k \in 1..Len(run[1].updates_info.apps) :
          Lower(run[1].updates_info.apps[k].name) = "foo"

\* C10: every package the list parser yields has exactly one record in the
\* inventory its run publishes, with or without an update; only scoop when a
\* self-update candidate exists has none besides the self entry.
C10_AllInstalledListed ==
    run[1].published =>
        \A k \in 1..Len(run[1].installed_apps_parsed) :
            LET n == Lower(run[1].installed_apps_parsed[k].name)
                recs == {i \in 1..Len(current_managed_apps_data) :
                            /\ ~current_managed_apps_data[i].is_scoop_self
                            /\ Lower(current_managed_apps_data[i].name) = n}
            IN  IF n = "scoop" /\ run[1].updates_info.scoop # << >>
                THEN recs = {}
                ELSE Cardinality(recs) = 1

\* published: scoop is installed and no self-update exists, so scoop has its
\* record, beside an app with an update and one without
C10_Witness ==
    /\ run[1].published
    /\ run[1].updates_info.scoop = << >>
    /\ \E i \in 1..Len(current_managed_apps_data) :
          current_managed_apps_data[i].name = "scoop"
    /\ \E i \in 1..Len(current_managed_apps_data) :
          current_managed_apps_data[i].has_update
    /\ Len(run[1].installed_apps_parsed) = MaxListRows

\* the self-update announcement for the versions A and B
SelfLineFor(A, B) ==
    << "Scoop", "can", "be", "updated", "from", "version", A, "to", B \o "." >>

\* the versions the generated announcements carry
LineVersions == {"1.0", "1.5", "2.0"}

\* the records of the published inventory that are the self entry
SelfRecords ==
    {i \in 1..Len(current_managed_apps_data) : current_managed_apps_data[i].is_scoop_self}

\* C11: when the status output of a published run holds the line "Scoop can
\* be updated from version A to B." the first record of the inventory is the
\* self entry with versions A and B and no other record is a self entry;
\* when it holds no such line no record is a self entry.
C11_SelfEntryFirst ==
    run[1].published =>
        LET text == run[1].calls[2].out.stdout
            data == current_managed_apps_data
            Has(A, B) == \E k \in 1..Len(text) : text[k] = SelfLineFor(A, B)
        IN  /\ \A A \in LineVersions, B \in LineVersions :
                 Has(A, B) => /\ SelfRecords = {1}
                              /\ data[1].has_update
                              /\ data[1].current_version = A
                              /\ data[1].new_version = B
            /\ (~\E A \in LineVersions, B \in LineVersions : Has(A, B))
               => SelfRecords = {}

\* published: the announcement 1.0 to 2.0, scoop itself in the list and an
\* app with an update
C11_Witness ==
    /\ run[1].published
    /\ run[1].calls[2].out.stdout[1] = SelfLineFor("1.0", "2.0")
    /\ \E k \in 1..Len(run[1].installed_apps_parsed) :
          run[1].installed_apps_parsed[k].name = "scoop"
    /\ Len(current_managed_apps_data) = 2
    /\ current_managed_apps_data[1].is_scoop_self
    /\ current_managed_apps_data[2].has_update

\* the tier of a published record, from its flags
TierOf(rec) == IF rec.is_scoop_self THEN 0 ELSE IF rec.has_update THEN 1 ELSE 2

\* C12: in the published inventory the self entry precedes the records with
\* an update, these precede the records without, and within a tier the
\* names ascend case-insensitively.
C12_ThreeTierOrder ==
    \A i, j \in 1..Len(current_managed_apps_data) :
        i < j =>
            LET a == current_managed_apps_data[i]
                b == current_managed_apps_data[j]
            IN  \/ TierOf(a) < TierOf(b)
                \/ /\ TierOf(a) = TierOf(b)
                   /\ Rank(Lower(a.name)) < Rank(Lower(b.name))

\* published: the self entry, then foo with an update, then bar without,
\* though bar precedes foo by name
C12_Witness ==
    /\ run[1].published
    /\ Len(current_managed_apps_data) = 3
    /\ current_managed_apps_data[1].is_scoop_self
    /\ Lower(current_managed_apps_data[2].name) = "foo"
    /\ current_managed_apps_data[2].has_update
    /\ current_managed_apps_data[3].name = "bar"
    /\ ~current_managed_apps_data[3].has_update

\* a separator line: nothing but runs of dashes
IsSeparator(line) == line # << >> /\ \A i \in 1..Len(line) : line[i] = "----"

\* index of the first separator line of a text, 0 when it has none
FirstSeparator(text) ==
    LET at == {k \in 1..Len(text) : IsSeparator(text[k])}
    IN  IF at = {} THEN 0 ELSE CHOOSE k \in at : \A m \in at : k <= m

\* the sentinel values that are no version
Sentinels == {"n/a", "-", "unknown", "error", "latest"}

\* the version V of the annotation "Update available: V" among the tokens
\* beyond index 2 of a row, and the third token when there is none
ClaimedVersion(row) ==
    LET at == {i \in 4..(Len(row) - 2) :
                  row[i] = "Update" /\ row[i + 1] = "available:"}
    IN  IF at = {} THEN row[3]
        ELSE row[(CHOOSE i \in at : \A m \in at : i <= m) + 2]

\* the rule that makes a row an update candidate
ClaimsUpdate(row) ==
    /\ row[2] # ClaimedVersion(row)
    /\ Lower(ClaimedVersion(row)) \notin Sentinels

\* the data rows of a status text: the lines after its first separator that
\* have three tokens or more and are neither header nor separator
StatusDataRows(text) ==
    {k \in 1..Len(text) :
        /\ FirstSeparator(text) > 0 /\ k > FirstSeparator(text)
        /\ Len(text[k]) >= 3 /\ ~IsSeparator(text[k])
        /\ ~(InLine("Name", text[k]) /\ InLine("Version", text[k]))}

\* C13: in status mode a data row of three tokens or more, whose name is
\* not scoop and is carried by no other row, yields an update candidate if
\* and only if its installed version differs from its final new version and
\* this is no sentinel value; the candidate carries the installed version
\* and the final new version, which is the V of an annotation "Update
\* available: V" beyond the third token and else the third token.
C13_UpdateIffNewer ==
    (parsed.mode = "status" /\ parsed.input # None) =>
        LET text == parsed.input
            apps == parsed.result.apps
        IN  \A k \in StatusDataRows(text) :
                LET row == text[k]
                    named == {i \in 1..Len(apps) : apps[i].name = row[1]}
                IN  (/\ Lower(row[1]) # "scoop"
                     /\ \A m \in StatusDataRows(text) \ {k} :
                           Lower(text[m][1]) # Lower(row[1]))
                    => /\ (named # {}) <=> ClaimsUpdate(row)
                       /\ \A i \in named : /\ apps[i].current = row[2]
                                            /\ apps[i].new = ClaimedVersion(row)

\* the least number of tokens a line needs to make a row
MinTokens(mode) == IF mode = "status" THEN 3 ELSE 2

\* C14: a parser called with an absent or an empty input raises nothing and
\* returns the empty result, and no row of a result comes from a line with
\* fewer tokens than the mode requires.
C14_EmptyGivesEmpty ==
    parsed.mode # "" =>
        /\ ~parsed.raised
        /\ parsed.input \in {None, << >>} =>
              parsed.result = (IF parsed.mode = "status"
                               THEN [scoop |-> << >>, apps |-> << >>]
                               ELSE << >>)
        /\ parsed.input # None =>
              LET rows == IF parsed.mode = "status" THEN parsed.result.apps
                          ELSE parsed.result
              IN  \A i \in 1..Len(rows) :
                      \E k \in 1..Len(parsed.input) :
                          /\ Len(parsed.input[k]) >= MinTokens(parsed.mode)
                          /\ parsed.input[k][1] = rows[i].name

\* a search is started by this step
StartsSearch == \E s \in Searches : search[s].pc = "idle" /\ search'[s].pc = "call"

\* a search that failed (its command failed or no row was parsed) is ended
\* by this step
FailedSearchEnds ==
    \E s \in Searches : search[s].pc = "clear_data" /\ search'[s].pc = "done"

\* the searches that have stored their rows
StoredSearches == {s \in Searches : search[s].pc \in {"delete_rows", "insert_rows", "done"}
                                     /\ search[s].search_results # << >>}

\* C15: starting a search empties the published search results, a search
\* that fails leaves them empty, and at every moment they are empty or the
\* complete rows of one search.
C15_SearchResultsWhole ==
    /\ [][(StartsSearch \/ FailedSearchEnds) => current_search_results_data' = << >>]_vars
    /\ [](\/ current_search_results_data = << >>
          \/ \E s \in StoredSearches :
                current_search_results_data = search[s].search_results)

\* the second search has started and emptied the rows the first one stored
C15_Witness ==
    /\ search[1].pc = "done" /\ search[1].search_results # << >>
    /\ search[2].pc = "call"
    /\ current_search_results_data = << >>

\* the commands whose child process has been started and not yet waited for
InFlight == {c \in Cmds : cmd[c].pc \in {"reading", "waiting"}}

\* C16: at most one mutating command is in flight in every reachable state.
C16_OneCommandAtATime == Cardinality(InFlight) <= 1

\* the first of the update candidates that carries the name, in any casing
FirstCandidate(apps, name) ==
    LET at == {i \in 1..Len(apps) : Lower(apps[i].name) = Lower(name)}
    IN  apps[CHOOSE i \in at : \A m \in at : i <= m]

\* C17: of the status rows whose names are equal case-insensitively only
\* the first yields an update candidate, and the version pair reconciliation
\* uses for the name is that of the first row.
C17_FirstRowWins ==
    LET apps == run[1].updates_info.apps
    IN  /\ \A i, j \in 1..Len(apps) :
               i # j => Lower(apps[i].name) # Lower(apps[j].name)
        /\ run[1].published =>
               \A k \in 1..Len(current_managed_apps_data) :
                   LET rec == current_managed_apps_data[k]
                       first == FirstCandidate(apps, rec.name)
                   IN  (rec.has_update /\ ~rec.is_scoop_self)
                       => /\ rec.current_version = first.current
                          /\ rec.new_version = first.new

\* the update candidates of the run whose name is the name, casing ignored
MatchingCandidates(name) ==
    {i \in 1..Len(run[1].updates_info.apps) :
        Lower(run[1].updates_info.apps[i].name) = Lower(name)}

\* the versions the list of the run gives for the name as written
ListedVersions(name) ==
    {run[1].installed_apps_parsed[j].version :
        j \in {m \in 1..Len(run[1].installed_apps_parsed) :
                  run[1].installed_apps_parsed[m].name = name}}

\* the published records of installed packages
PackageRecords ==
    {current_managed_apps_data[k] :
        k \in {m \in 1..Len(current_managed_apps_data) :
                  ~current_managed_apps_data[m].is_scoop_self}}

\* C18: a published record of an installed package whose name matches an
\* update candidate, casing ignored, has has_update true and carries the
\* current and new version of a matching candidate; every other record
\* carries the version of the list, new version "N/A" and has_update false.
\* A record with has_update true has a new version different from its
\* current version and outside the sentinel values.
C18_RecordFollowsCandidate ==
    run[1].published =>
        \A rec \in PackageRecords :
            /\ IF MatchingCandidates(rec.name) # {}
               THEN /\ rec.has_update
                    /\ \E i \in MatchingCandidates(rec.name) :
                          /\ rec.current_version = run[1].updates_info.apps[i].current
                          /\ rec.new_version = run[1].updates_info.apps[i].new
               ELSE /\ ~rec.has_update
                    /\ rec.new_version = "N/A"
                    /\ rec.current_version \in ListedVersions(rec.name)
            /\ rec.has_update =>
                  /\ rec.new_version # rec.current_version
                  /\ Lower(rec.new_version) \notin Sentinels

\* a published inventory with a record that took the pair of a candidate
\* where the list gave another version, beside a record without an update
C18_Witness ==
    /\ run[1].published
    /\ \E rec \in PackageRecords :
          /\ rec.has_update
          /\ rec.current_version \notin ListedVersions(rec.name)
    /\ \E rec \in PackageRecords : ~rec.has_update

\* a line that makes a data row of the mode: not blank, no separator, with
\* the least number of tokens, and in search mode not the row of scoop
IsDataLine(mode, line) ==
    /\ line # << >>
    /\ ~IsSeparator(line)
    /\ Len(line) >= MinTokens(mode)
    /\ mode = "search" => Lower(line[1]) # "scoop"

\* name and version of the data lines after the first separator of a text,
\* in the order of the text
RowsAfterSeparator(mode, text) ==
    LET first == FirstSeparator(text)
        upTo[k \in 0..Len(text)] ==
            IF k = 0 THEN << >>
            ELSE IF first > 0 /\ k > first /\ IsDataLine(mode, text[k])
                 THEN Append(upTo[k - 1], << text[k][1], text[k][2] >>)
                 ELSE upTo[k - 1]
    IN  upTo[Len(text)]

\* C19: the rows of a search or list result are, in the order of the input,
\* the non-blank lines after the first separator that have the least number
\* of tokens of the mode, a header-like line among them included, and
\* no update candidate of the status mode comes from a line at or before the
\* first separator.
C19_RowsAfterSeparator ==
    (parsed.mode # "" /\ parsed.input # None) =>
        IF parsed.mode = "status"
        THEN \A i \in 1..Len(parsed.result.apps) :
                 \E k \in 1..Len(parsed.input) :
                     /\ FirstSeparator(parsed.input) > 0
                     /\ k > FirstSeparator(parsed.input)
                     /\ parsed.input[k][1] = parsed.result.apps[i].name
        ELSE [i \in 1..Len(parsed.result) |->
                 << parsed.result[i].name, parsed.result[i].version >>]
             = RowsAfterSeparator(parsed.mode, parsed.input)

\* the step of the state machine a refresh run is in
StepOf(rec) ==
    CASE rec.pc = "idle" -> "Idle"
      [] rec.pc \in {"start", "update"} -> "RefreshingMetadata"
      [] rec.pc = "status" -> "FetchingStatus"
      [] rec.pc = "list" -> "FetchingInventory"
      [] rec.pc = "done" ->
            IF rec.published THEN "Ready"
            ELSE IF rec.calls # << >> /\ rec.calls[Len(rec.calls)].out.returncode = 0
            THEN "Reconciling"
            ELSE "Error"

\* the run has ended for the user: its inventory is published or its error
\* box was shown
RunEnded(r) ==
    \/ run[r].published
    \/ \E i \in 1..Len(run[r].boxes) : run[r].boxes[i].kind = "error"

\* C20: a refresh run moves only along Idle, RefreshingMetadata,
\* FetchingStatus, FetchingInventory, Reconciling, Ready, or from one of the
\* steps to Error, without skipping a step or going back; every started run
\* eventually publishes its inventory or shows its error; and a run started
\* later begins at the first step.  A fetching step is left by the return of
\* its own command, and Idle is left with nothing done.
C20_RunStateMachine ==
    /\ [][\A r \in Runs :
             LET from == StepOf(run[r])
                 to == StepOf(run'[r])
                 moves ==
                     {<< "Idle", "RefreshingMetadata" >>,
                      << "RefreshingMetadata", "FetchingStatus" >>,
                      << "FetchingStatus", "FetchingInventory" >>,
                      << "FetchingInventory", "Reconciling" >>,
                      << "Reconciling", "Ready" >>}
                     \cup {<< s, "Error" >> :
                              s \in {"RefreshingMetadata", "FetchingStatus",
                                     "FetchingInventory", "Reconciling"}}
                 command == CASE from = "RefreshingMetadata" -> "update"
                              [] from = "FetchingStatus" -> "status"
                              [] from = "FetchingInventory" -> "list"
                              [] OTHER -> ""
             IN  from # to =>
                     /\ << from, to >> \in moves
                     /\ from = "Idle" => run'[r].calls = << >>
                     /\ command # "" =>
                           /\ Len(run'[r].calls) = Len(run[r].calls) + 1
                           /\ run'[r].calls[Len(run'[r].calls)].cmd = command]_vars
    /\ \A r \in Runs : (run[r].pc # "idle") ~> RunEnded(r)

\* a first run is Ready and a run started after it has ended in Error
C20_Witness ==
    /\ run[1].published
    /\ StepOf(run[1]) = "Ready"
    /\ StepOf(run[2]) = "Error"
    /\ RunEnded(2)

\* C21: a refresh run that was started earlier never overwrites or clears
\* the inventory that a run started later has published, and once every
\* started run has ended the inventory is empty or the result of the run
\* started last.  A run writes the inventory when its result is published
\* and when its error handler clears the list.
C21_LastStartedWins ==
    /\ [][\A r \in Runs :
             LET publishes == ~run[r].published /\ run'[r].published
                 clears == /\ Len(run'[r].boxes) > Len(run[r].boxes)
                           /\ run'[r].boxes[Len(run'[r].boxes)].kind = "error"
             IN  (publishes \/ clears) =>
                     ~\E later \in Runs : later > r /\ run[later].published]_vars
    /\ [](\A r \in Runs :
             (/\ run[r].published
              /\ \A q \in StartedRuns : q <= r /\ RunEnded(q))
             => current_managed_apps_data \in {<< >>, run[r].managed_apps_candidates})

\* C22: whenever the main window takes input the rows of the search table
\* and current_search_results_data agree index by index, with the same
\* length, and an install launched from the table names a package that a
\* row of the table shows.
C22_RowsMatchData ==
    /\ [](MainWindowUsable
           => search_results_treeview = SearchRows(current_search_results_data))
    /\ [][\A c \in Cmds :
             (cmd[c].pc = "idle" /\ cmd'[c].pc # "idle") =>
                 \E i \in 1..Len(search_results_treeview) :
                     search_results_treeview[i][1] = cmd'[c].command_parts[2]]_vars

\* C23: the step that ends a refresh run, by publishing its inventory or by
\* showing its error, leaves the busy indicator stopped and the status text
\* "Ready".
C23_IndicatorStops ==
    [][\A r \in Runs :
          (~RunEnded(r) /\ RunEnded(r)') =>
              /\ status_progress' = FALSE
              /\ status_label' = "Ready"]_vars

\* C24: for every selection of the inventory, an uninstall command names
\* only selected records that are not the self entry, an update command
\* with names names only selected records with an update that are not the
\* self entry, an update without names is run only when the selected self
\* entry has an update, and no command is run when the selection holds no
\* eligible record; every update or uninstall command that is issued is one
\* of the commands of some selection.
C24_OnlyEligibleArguments ==
    /\ [](\A sel \in SUBSET (1..Len(current_managed_apps_data)) :
             LET data == current_managed_apps_data
                 up == UpdateLaunches(data, sel)
                 un == UninstallLaunches(data, sel)
                 apps == {i \in sel : ~data[i].is_scoop_self}
                 updatable == {i \in apps : data[i].has_update}
                 selves == {i \in sel : data[i].is_scoop_self /\ data[i].has_update}
             IN  /\ \A n \in 1..Len(un) :
                       /\ un[n][1] = "uninstall" /\ Len(un[n]) >= 2
                       /\ \A k \in 2..Len(un[n]) :
                             \E i \in apps : data[i].original_name = un[n][k]
                 /\ \A n \in 1..Len(up) :
                       /\ up[n][1] = "update"
                       /\ Len(up[n]) = 1 => selves # {}
                       /\ \A k \in 2..Len(up[n]) :
                             \E i \in updatable : data[i].original_name = up[n][k]
                 /\ apps = {} => un = << >>
                 /\ (updatable = {} /\ selves = {}) => up = << >>)
    /\ [][\A c \in Cmds :
             (/\ cmd[c].pc = "idle" /\ cmd'[c].pc # "idle"
              /\ cmd'[c].command_parts[1] \in {"update", "uninstall"})
             => \E sel \in SUBSET (1..Len(current_managed_apps_data)) :
                    LET all == UpdateLaunches(current_managed_apps_data, sel)
                               \o UninstallLaunches(current_managed_apps_data, sel)
                    IN  \E n \in 1..Len(all) : all[n] = cmd'[c].command_parts]_vars

\* the inventory shows the self entry and two apps, and an uninstall of the
\* two apps was issued
C24_Witness ==
    /\ Len(current_managed_apps_data) = 3
    /\ current_managed_apps_data[1].is_scoop_self
    /\ \E c \in Cmds : /\ cmd[c].pc # "idle"
                        /\ Len(cmd[c].command_parts) = 3
                        /\ cmd[c].command_parts[1] = "uninstall"

=============================================================================
